---- MODULE Spec2Model ----
(***************************************************************************)
(* planckedit: the save / stash / open flow, the JSON settings, the        *)
(* indentation keys and the line-number gutter of the PySide editor        *)
(* (planckedit-pyside.py) and of its tkinter port (planckedit-tkinter.py), *)
(* with the handlers of the two other files where they differ.             *)
(*                                                                         *)
(* One action per handler.  The answers of the modal dialogs and the       *)
(* outcome of every file-system call are inputs of the handler, drawn      *)
(* with \E.  A handler runs to completion on the single UI thread.         *)
(***************************************************************************)
EXTENDS Integers, Sequences, FiniteSets, TLC

VARIABLES
    variant,        \* which program runs: "pyside" or "tkinter"
    window,         \* "open" | "closed"
    text,           \* the editor's text
    cursor,         \* the insertion cursor: the number of characters before it
    blocks,         \* the number of lines of a long document: blockCount()
    gutter,         \* the width of the line-number gutter, in pixels, for each
                    \* width the font may give the digit 9
    current_file,   \* self.current_file: None or a path
    dirty,          \* pyside: document().isModified(); tkinter: self.is_dirty
    edit_modified,  \* tkinter: the Text widget's edit_modified flag
    fs,             \* the document files and the stash file on disk
    config,         \* self.config, the in-memory settings mapping
    ed,             \* what the editor widget has applied: tab_size, use_spaces, wrap
    cfgFile,        \* config.json on disk
    op,             \* the handler that ran last
    prompted,       \* the Save/Discard/Cancel prompt was shown by that handler
    ret,            \* what that handler's save_file / save_file_as / maybe_save returned
    sfret,          \* what the write branch of save_file returned in that handler
    wres,           \* outcome of the open(..., 'w') + write of that handler
    wpath,          \* the path that write went to
    rres,           \* outcome of the open(..., 'r') + read of that handler
    rmres,          \* outcome of the os.remove of that handler
    raised,         \* an exception left that handler uncaught
    step,           \* position in the scenario open, edit, save, edit, close
    nprompts,       \* prompts shown by the operations of the scenario so far
    pretab          \* the text and cursor before the Tab key, while that Tab, or
                    \* the Shift+Tab pressed right after it, is the last operation

vars == <<variant, window, text, cursor, blocks, gutter, current_file, dirty, edit_modified, fs, config,
          ed, cfgFile, op, prompted, ret, sfret, wres, wpath, rres, rmres,
          raised, step, nprompts, pretab>>

-----------------------------------------------------------------------------
(* Bounds of the model *)

\* longest text typed into the editor or held by a file
MaxLen == 2

\* most lines of a document whose gutter is measured line count by line count
MaxLines == 100

-----------------------------------------------------------------------------
(* Values *)

Variants == {"pyside", "tkinter"}

Chars == {"a"}

RECURSIVE SeqsUpTo(_)
SeqsUpTo(n) == IF n = 0 THEN {<<>>}
               ELSE SeqsUpTo(n - 1) \cup {Append(s, c) : s \in {t \in SeqsUpTo(n - 1) : Len(t) = n - 1}, c \in Chars}

Texts == SeqsUpTo(MaxLen)

\* self.current_file = None
None == "None"

\* what a file dialog returns when it is cancelled (the empty string, falsy)
Cancel == ""

\* os.path.join(script_dir, "stash.txt")
StashPath == "stash.txt"

\* the paths a file dialog can return besides Cancel
Paths == {"f.txt", StashPath}

NoFile == [exists |-> FALSE, data |-> <<>>]

File(t) == [exists |-> TRUE, data |-> t]

Files == {NoFile} \cup {File(t) : t \in Texts}

\* the three buttons of the prompt
Answers == {"Save", "Discard", "Cancel"}

\* open(path, 'w') + f.write(...): done, open raised (file untouched), write
\* raised after the file was truncated
WriteOutcomes == {"ok", "open_fails", "write_fails"}

-----------------------------------------------------------------------------
(* The handlers of the document, as functions of a record of the state.    *)
(* Fields: text, cf (current_file), dirty, em (edit_modified), fs, and the *)
(* trace of the handler: prompted, ms (maybe_save's result), ret, sfret,   *)
(* wres, wpath, rres, rmres, raised.                                       *)

Cur == [text |-> text, cf |-> current_file, dirty |-> dirty, em |-> edit_modified,
        fs |-> fs, prompted |-> FALSE, ms |-> TRUE, ret |-> "none", sfret |-> "none",
        wres |-> "none", wpath |-> None, rres |-> "none", rmres |-> "none",
        raised |-> FALSE]

\* with open(path, 'w', encoding='utf-8') as f: f.write(<editor text>)
write_text(s, path, io) ==
    [s EXCEPT !.fs = IF io = "ok" THEN [@ EXCEPT ![path] = File(s.text)]
                     ELSE IF io = "write_fails" THEN [@ EXCEPT ![path] = File(<<>>)]
                     ELSE @,
              !.wres = io,
              !.wpath = path]

\* save_file that forgets setModified(False) / is_dirty = False
save_file_write_keeps_dirty(s, io) ==
    LET w == write_text(s, s.cf, io)
    IN  IF io = "ok"
        THEN [w EXCEPT !.sfret = "True", !.ret = "True"]
        ELSE [w EXCEPT !.sfret = "False", !.ret = "False"]

\* save_file, current_file is not None: write, clear the modified flag
save_file_write(s, io) ==
    LET w == write_text(s, s.cf, io)
    IN  IF io = "ok"
        THEN [w EXCEPT !.dirty = FALSE, !.sfret = "True", !.ret = "True"]
        ELSE [w EXCEPT !.sfret = "False", !.ret = "False"]

\* clear_stash_file that leaves the stash file where it is
clear_stash_file_keeps(v, s, rm) == s

\* clear_stash_file: pyside swallows a failing os.remove, tkinter has no try
clear_stash_file(v, s, rm) ==
    IF s.fs[StashPath].exists
    THEN IF rm
         THEN [s EXCEPT !.fs = [@ EXCEPT ![StashPath] = NoFile], !.rmres = "ok"]
         ELSE [s EXCEPT !.rmres = "fail", !.raised = (v = "tkinter")]
    ELSE s

save_file_as(v, s, path, io, rm) ==
    LET was_stash_mode == (s.cf = None)
    IN  IF path # Cancel
        THEN LET s1 == [s EXCEPT !.cf = path]
                 s2 == save_file_write(s1, io)
             IN  IF s2.sfret = "True"
                 THEN IF was_stash_mode
                      THEN LET s3 == clear_stash_file(v, s2, rm)
                           IN  IF s3.raised THEN [s3 EXCEPT !.ret = "raised"]
                               ELSE [s3 EXCEPT !.ret = "True"]
                      ELSE [s2 EXCEPT !.ret = "True"]
                 ELSE [s2 EXCEPT !.ret = "False"]
        ELSE [s EXCEPT !.ret = "False"]

save_file(v, s, path, io, rm) ==
    IF s.cf = None
    THEN save_file_as(v, s, path, io, rm)
    ELSE save_file_write(s, io)

\* stash_file that writes nothing
stash_file_writes_nothing(s, io) == s

\* stash_file that takes the stashed document for saved
stash_file_marks_clean(s, io) == [write_text(s, StashPath, io) EXCEPT !.dirty = FALSE]

stash_file(s, io) == write_text(s, StashPath, io)

\* maybe_save that lets a modified named document go without asking
maybe_save_never_asks(v, s, answer, io) ==
    IF ~s.dirty
    THEN [s EXCEPT !.ms = TRUE]
    ELSE IF s.cf = None
         THEN [stash_file(s, io) EXCEPT !.ms = TRUE]
         ELSE [s EXCEPT !.ms = TRUE]

\* maybe_save that takes Discard for Cancel
maybe_save_discard_cancels(v, s, answer, io) ==
    IF ~s.dirty
    THEN [s EXCEPT !.ms = TRUE]
    ELSE IF s.cf = None
         THEN [stash_file(s, io) EXCEPT !.ms = TRUE]
         ELSE LET p == [s EXCEPT !.prompted = TRUE]
              IN  IF answer = "Save"
                  THEN LET r == save_file(v, p, Cancel, io, TRUE)
                       IN  [r EXCEPT !.ms = (r.ret = "True")]
                  ELSE [p EXCEPT !.ms = FALSE]

\* maybe_save that asks about an untitled document too
maybe_save_asks_untitled(v, s, answer, io) ==
    IF ~s.dirty
    THEN [s EXCEPT !.ms = TRUE]
    ELSE LET p == [s EXCEPT !.prompted = TRUE]
         IN  IF answer = "Save"
             THEN LET r == save_file(v, p, Cancel, io, TRUE)
                  IN  [r EXCEPT !.ms = (r.ret = "True")]
             ELSE IF answer = "Cancel"
                  THEN [p EXCEPT !.ms = FALSE]
                  ELSE [p EXCEPT !.ms = TRUE]

\* maybe_save that goes on when the prompt is cancelled
maybe_save_ignores_cancel(v, s, answer, io) ==
    IF ~s.dirty
    THEN [s EXCEPT !.ms = TRUE]
    ELSE IF s.cf = None
         THEN [stash_file(s, io) EXCEPT !.ms = TRUE]
         ELSE LET p == [s EXCEPT !.prompted = TRUE]
              IN  IF answer = "Save"
                  THEN LET r == save_file(v, p, Cancel, io, TRUE)
                       IN  [r EXCEPT !.ms = (r.ret = "True")]
                  ELSE [p EXCEPT !.ms = TRUE]

maybe_save(v, s, answer, io) ==
    IF ~s.dirty
    THEN [s EXCEPT !.ms = TRUE]
    ELSE IF s.cf = None
         THEN [stash_file(s, io) EXCEPT !.ms = TRUE]
         ELSE LET p == [s EXCEPT !.prompted = TRUE]
              IN  IF answer = "Save"
                  THEN LET r == save_file(v, p, Cancel, io, TRUE)
                       IN  [r EXCEPT !.ms = (r.ret = "True")]
                  ELSE IF answer = "Cancel"
                       THEN [p EXCEPT !.ms = FALSE]
                       ELSE [p EXCEPT !.ms = TRUE]

\* editor.clear() / editor.setPlainText(t), then the modified flag is cleared
set_text(s, t) == [s EXCEPT !.text = t, !.em = FALSE]

new_file(v, s, answer, io) ==
    LET m == maybe_save(v, s, answer, io)
    IN  IF ~m.ms THEN m
        ELSE [set_text(m, <<>>) EXCEPT !.cf = None, !.dirty = FALSE]

\* with open(path, 'r', encoding='utf-8') as f: text = f.read()
read_ok(s, path, rd) == rd /\ s.fs[path].exists

\* open_file that empties the editor before it reads the file
open_file_clears_first(v, s, answer, io, path, rd) ==
    LET m == maybe_save(v, s, answer, io)
    IN  IF ~m.ms THEN m
        ELSE IF path = Cancel THEN m
        ELSE IF read_ok(m, path, rd)
             THEN [set_text(m, m.fs[path].data) EXCEPT !.cf = path, !.dirty = FALSE,
                                                       !.rres = "ok"]
             ELSE [set_text(m, <<>>) EXCEPT !.rres = "fail"]

open_file(v, s, answer, io, path, rd) ==
    LET m == maybe_save(v, s, answer, io)
    IN  IF ~m.ms THEN m
        ELSE IF path = Cancel THEN m
        ELSE IF read_ok(m, path, rd)
             THEN [set_text(m, m.fs[path].data) EXCEPT !.cf = path, !.dirty = FALSE,
                                                       !.rres = "ok"]
             ELSE [m EXCEPT !.rres = "fail"]

\* load_startup_stash that takes the stash file for the open document
load_startup_stash_names(s, rd) ==
    IF s.fs[StashPath].exists
    THEN IF read_ok(s, StashPath, rd)
         THEN [set_text(s, s.fs[StashPath].data) EXCEPT !.cf = StashPath, !.dirty = FALSE,
                                                        !.rres = "ok"]
         ELSE [s EXCEPT !.rres = "fail"]
    ELSE s

load_startup_stash(s, rd) ==
    IF s.fs[StashPath].exists
    THEN IF read_ok(s, StashPath, rd)
         THEN [set_text(s, s.fs[StashPath].data) EXCEPT !.cf = None, !.dirty = FALSE,
                                                        !.rres = "ok"]
         ELSE [s EXCEPT !.rres = "fail"]
    ELSE s

\* open_stash that takes the stash file for the open document
open_stash_names(v, s, answer, io, rd) ==
    LET m == IF s.cf # None THEN maybe_save(v, s, answer, io) ELSE s
    IN  IF ~m.ms THEN m
        ELSE IF ~m.fs[StashPath].exists THEN m
        ELSE IF read_ok(m, StashPath, rd)
             THEN [set_text(m, m.fs[StashPath].data) EXCEPT !.cf = StashPath, !.dirty = FALSE,
                                                            !.rres = "ok"]
             ELSE [m EXCEPT !.rres = "fail"]

\* Open Stash asks maybe_save only when a file is open
open_stash(v, s, answer, io, rd) ==
    LET m == IF s.cf # None THEN maybe_save(v, s, answer, io) ELSE s
    IN  IF ~m.ms THEN m
        ELSE IF ~m.fs[StashPath].exists THEN m
        ELSE IF read_ok(m, StashPath, rd)
             THEN [set_text(m, m.fs[StashPath].data) EXCEPT !.cf = None, !.dirty = FALSE,
                                                            !.rres = "ok"]
             ELSE [m EXCEPT !.rres = "fail"]

\* Clear Stash: remove the file, then empty the editor; in tkinter a failing
\* os.remove leaves clear_stash through the exception
clear_stash(v, s, rm) ==
    LET c == clear_stash_file(v, s, rm)
    IN  IF c.raised THEN c
        ELSE [set_text(c, <<>>) EXCEPT !.cf = None, !.dirty = FALSE]

\* closeEvent (pyside) / close_app (tkinter): the window goes when ms is TRUE
close_app(v, s, answer, io) == maybe_save(v, s, answer, io)

-----------------------------------------------------------------------------
(* The same handlers in the two other files of the repository:             *)
(* plankedit-pyside.py, the earlier PySide revision, and planckedit.py,    *)
(* the minimal tkinter window.                                             *)

\* plankedit-pyside.py open_stash: maybe_save runs for an untitled document too
plankedit_open_stash(s, answer, io, rd) ==
    LET m == maybe_save("pyside", s, answer, io)
    IN  IF ~m.ms THEN m
        ELSE IF ~m.fs[StashPath].exists THEN m
        ELSE IF read_ok(m, StashPath, rd)
             THEN [set_text(m, m.fs[StashPath].data) EXCEPT !.cf = None, !.dirty = FALSE,
                                                            !.rres = "ok"]
             ELSE [m EXCEPT !.rres = "fail"]

\* planckedit.py close_app: self.root.destroy()
planckedit_close_app(s) == [s EXCEPT !.ms = TRUE]

\* planckedit.py new_file: self.text_area.delete(1.0, tk.END)
planckedit_new_file(s) == [s EXCEPT !.text = <<>>]

\* the four files
Files4 == {"planckedit-pyside.py", "plankedit-pyside.py", "planckedit-tkinter.py",
           "planckedit.py"}

\* the variant of the document machine a file is
VariantOf(file) == IF file = "planckedit-tkinter.py" THEN "tkinter" ELSE "pyside"

\* Close, New and Open Stash of a file, on the state s
close_in(file, s, answer, io) ==
    IF file = "planckedit.py" THEN planckedit_close_app(s)
    ELSE close_app(VariantOf(file), s, answer, io)

new_in(file, s, answer, io) ==
    IF file = "planckedit.py" THEN planckedit_new_file(s)
    ELSE new_file(VariantOf(file), s, answer, io)

open_stash_in(file, s, answer, io, rd) ==
    IF file = "plankedit-pyside.py" THEN plankedit_open_stash(s, answer, io, rd)
    ELSE open_stash(VariantOf(file), s, answer, io, rd)

-----------------------------------------------------------------------------
(* The scenario of the specification's testable property (3): a fresh      *)
(* start, then open file, edit, save, edit, close.  step names the last    *)
(* operation of the sequence that is done; an operation outside the        *)
(* sequence leaves the scenario ("off").  In tkinter an edit is a key      *)
(* press and the key release that follows it.                              *)

Steps == {"off", "started", "opened", "keydown1", "edited1", "saved", "keydown2",
          "edited2", "closing"}

StepAfter(o, r) ==
    IF o = "start" THEN "started"
    ELSE IF step = "off" THEN "off"
    ELSE IF o = "open" /\ step = "started" /\ r.rres = "ok" THEN "opened"
    ELSE IF o = "key" /\ step = "opened"
         THEN (IF variant = "tkinter" THEN "keydown1" ELSE "edited1")
    ELSE IF o = "key" /\ step = "saved"
         THEN (IF variant = "tkinter" THEN "keydown2" ELSE "edited2")
    ELSE IF o = "release"
         THEN (IF step = "keydown1" THEN "edited1"
               ELSE IF step = "keydown2" THEN "edited2" ELSE step)
    ELSE IF o = "save" /\ step = "edited1" THEN "saved"
    ELSE IF o = "close" /\ step = "edited2" THEN "closing"
    ELSE "off"

\* prompts shown by the operations of the scenario so far
PromptsAfter(o, r) ==
    IF StepAfter(o, r) \in {"off", "started"} THEN 0
    ELSE IF r.prompted THEN nprompts + 1
    ELSE nprompts

-----------------------------------------------------------------------------
(* Settings: the values of Python and of JSON.  A Python value is a pair   *)
(* <<type, n>>; a JSON token is what json.dump writes for it: a literal,   *)
(* or a number as its decimal digits.                                      *)

PyBool(b) == <<"bool", IF b THEN 1 ELSE 0>>

PyInt(n) == <<"int", n>>

PyNone == <<"none", 0>>

\* Python's truth value of a setting
Truthy(v) == v[2] # 0

Keys == {"word_wrap", "tab_size", "use_spaces"}

default_config == [word_wrap |-> PyBool(TRUE), tab_size |-> PyInt(4), use_spaces |-> PyBool(TRUE)]

\* the range the Tab Size dialog accepts
MinTabSize == 1

MaxTabSize == 16

\* the sizes the Tab Size dialog can return
TabInputs == {MinTabSize, 2, MaxTabSize}

JLit(word) == [k |-> "lit", s |-> word, d |-> <<>>]

RECURSIVE Digits(_)
Digits(n) == IF n < 10 THEN <<n>> ELSE Append(Digits(n \div 10), n % 10)

RECURSIVE FromDigits(_)
FromDigits(d) == IF Len(d) = 0 THEN 0
                 ELSE 10 * FromDigits(SubSeq(d, 1, Len(d) - 1)) + d[Len(d)]

JNum(n) == [k |-> "num", s |-> "", d |-> Digits(n)]

\* json.dump of one value
json_dump_value(v) ==
    IF v[1] = "bool" THEN (IF v[2] = 1 THEN JLit("true") ELSE JLit("false"))
    ELSE IF v[1] = "int" THEN JNum(v[2])
    ELSE JLit("null")

\* json.load that reads a number's digits from the wrong end
json_load_value_reversed(t) ==
    IF t.k = "num" THEN PyInt(FromDigits(IF Len(t.d) = 2 THEN <<t.d[2], t.d[1]>> ELSE t.d))
    ELSE IF t.s = "true" THEN PyBool(TRUE)
    ELSE IF t.s = "false" THEN PyBool(FALSE)
    ELSE PyNone

\* json.load of one token
json_load_value(t) ==
    IF t.k = "num" THEN PyInt(FromDigits(t.d))
    ELSE IF t.s = "true" THEN PyBool(TRUE)
    ELSE IF t.s = "false" THEN PyBool(FALSE)
    ELSE PyNone

\* config.json: absent; there but open() raises; bytes that do not decode;
\* text that is no JSON; JSON that is a number; JSON that is []; a JSON object
NoObj == [k \in {} |-> JLit("null")]

ConfigFile(kind) == [kind |-> kind, obj |-> NoObj]

NoConfigFile == ConfigFile("absent")

ObjectFile(o) == [kind |-> "object", obj |-> o]

\* json.dump(self.config, f, indent=4)
json_dump(cfg) == ObjectFile([k \in DOMAIN cfg |-> json_dump_value(cfg[k])])

\* json.load(f) of a file that holds an object
json_load(f) == [k \in DOMAIN f.obj |-> json_load_value(f.obj[k])]

\* default_config.update(loaded)
dict_update(d, loaded) ==
    [k \in DOMAIN d \cup DOMAIN loaded |-> IF k \in DOMAIN loaded THEN loaded[k] ELSE d[k]]

\* load_config: pyside catches json.JSONDecodeError and IOError only
load_config(v, f) ==
    IF f.kind = "absent" THEN [cfg |-> default_config, raised |-> FALSE]
    ELSE IF f.kind \in {"unreadable", "invalid"} THEN [cfg |-> default_config, raised |-> FALSE]
    ELSE IF f.kind \in {"badbytes", "number"}
         THEN [cfg |-> default_config, raised |-> (v = "pyside")]
    ELSE IF f.kind = "emptylist" THEN [cfg |-> default_config, raised |-> FALSE]
    ELSE [cfg |-> dict_update(default_config, json_load(f)), raised |-> FALSE]

\* save_config: a write that fails after open(path, "w") leaves a cut file
save_config(cfg, f, io) ==
    IF io = "ok" THEN json_dump(cfg)
    ELSE IF io = "write_fails" THEN ConfigFile("invalid")
    ELSE f

\* CodeEditor.__init__: tab_size 4, use_spaces True; the widget wraps by default
EditorDefaults == [tab_size |-> PyInt(4), use_spaces |-> PyBool(TRUE), wrap |-> TRUE]

set_tab_settings(e, size, use_spaces) ==
    [e EXCEPT !.tab_size = size, !.use_spaces = use_spaces]

apply_settings(e, cfg) ==
    set_tab_settings([e EXCEPT !.wrap = Truthy(cfg.word_wrap)], cfg.tab_size, cfg.use_spaces)

\* the settings handlers, on [config, ed, cfgFile, wres]
CurCfg == [config |-> config, ed |-> ed, cfgFile |-> cfgFile, wres |-> "none"]

\* the check mark flips, then the handler stores it
toggle_word_wrap(c, io) ==
    LET cfg == [c.config EXCEPT !.word_wrap = PyBool(~Truthy(@))]
    IN  [c EXCEPT !.config = cfg, !.cfgFile = save_config(cfg, @, io), !.wres = io,
                  !.ed = apply_settings(@, cfg)]

toggle_tabs_vs_spaces(c, io) ==
    LET cfg == [c.config EXCEPT !.use_spaces = PyBool(~Truthy(@))]
    IN  [c EXCEPT !.config = cfg, !.cfgFile = save_config(cfg, @, io), !.wres = io,
                  !.ed = apply_settings(@, cfg)]

\* num = 0: the dialog was cancelled
change_tab_size(c, num, io) ==
    IF num = 0 THEN c
    ELSE LET cfg == [c.config EXCEPT !.tab_size = PyInt(num)]
         IN  [c EXCEPT !.config = cfg, !.cfgFile = save_config(cfg, @, io), !.wres = io,
                       !.ed = apply_settings(@, cfg)]

-----------------------------------------------------------------------------
(* The Tab and Shift+Tab keys of the editor widget, on the text t with the  *)
(* insertion cursor after its first c characters.  The result is the text  *)
(* and the cursor the key leaves.                                          *)

\* what the indentation keys meet in a text
EdChars == {" ", "\t", "\n"}

RECURSIVE SeqsOver(_, _)
SeqsOver(C, n) == IF n = 0 THEN {<<>>}
                  ELSE SeqsOver(C, n - 1) \cup
                       {Append(q, x) : q \in {u \in SeqsOver(C, n - 1) : Len(u) = n - 1}, x \in C}

EdTexts == SeqsOver(EdChars, MaxLen)

\* " " * n
RECURSIVE Spaces(_)
Spaces(n) == IF n <= 0 THEN <<>> ELSE Append(Spaces(n - 1), " ")

\* insert the string str at the cursor
insert(t, c, str) ==
    [text |-> SubSeq(t, 1, c) \o str \o SubSeq(t, c + 1, Len(t)), cursor |-> c + Len(str)]

\* delete the n characters before the cursor
delete_previous(t, c, n) ==
    [text |-> SubSeq(t, 1, c - n) \o SubSeq(t, c + 1, Len(t)), cursor |-> c - n]

\* Tab that indents by one space whatever the tab size is
handle_tab_one_space(v, e, t, c) ==
    IF Truthy(e.use_spaces) THEN insert(t, c, <<" ">>) ELSE insert(t, c, <<"\t">>)

\* Tab without modifiers.  tkinter in tab mode returns None and the widget's
\* own binding inserts the tab character.
handle_tab(v, e, t, c) ==
    IF Truthy(e.use_spaces) THEN insert(t, c, Spaces(e.tab_size[2]))
    ELSE insert(t, c, <<"\t">>)

\* the loop over reversed(text_before_cursor): n spaces counted so far, the
\* character before position c is the next one looked at
RECURSIVE space_count(_, _, _, _)
space_count(t, c, n, size) ==
    IF c = 0 \/ t[c] # " " THEN n
    ELSE IF n + 1 = size THEN n + 1
    ELSE space_count(t, c - 1, n + 1, size)

\* Shift+Tab that removes one space whatever the tab size is
handle_backtab_one_space(v, e, t, c) ==
    IF Truthy(e.use_spaces)
    THEN delete_previous(t, c, space_count(t, c, 0, 1))
    ELSE IF c > 0 /\ t[c] = "\t" THEN delete_previous(t, c, 1)
         ELSE [text |-> t, cursor |-> c]

\* Shift+Tab.  In tab mode pyside looks at block_text[position_in_block - 1]
\* only when position_in_block > 0; tkinter reads and deletes the index
\* "insert-1c", which at the start of the text is the index of the cursor.
handle_backtab(v, e, t, c) ==
    IF Truthy(e.use_spaces)
    THEN delete_previous(t, c, space_count(t, c, 0, e.tab_size[2]))
    ELSE IF v = "pyside"
         THEN (IF c > 0 /\ t[c] = "\t" THEN delete_previous(t, c, 1)
               ELSE [text |-> t, cursor |-> c])
         ELSE LET i == IF c = 0 THEN 1 ELSE c
              IN  IF i <= Len(t) /\ t[i] = "\t"
                  THEN [text |-> SubSeq(t, 1, i - 1) \o SubSeq(t, i + 1, Len(t)),
                        cursor |-> i - 1]
                  ELSE [text |-> t, cursor |-> c]

-----------------------------------------------------------------------------
(* The line-number gutter *)

\* the programs that draw a gutter: the two of Variants and the earlier
\* PySide revision, plankedit-pyside.py
GutterVariants == Variants \cup {"plankedit"}

\* fontMetrics().horizontalAdvance('9'): the fonts differ
Advances == 6 .. 9

\* while max_num >= 10: max_num //= 10; digits += 1
RECURSIVE digits_loop(_, _)
digits_loop(max_num, digits) ==
    IF max_num >= 10 THEN digits_loop(max_num \div 10, digits + 1) ELSE digits

\* tkinter: the gutter is tk.Text(self, width=4, padx=4, ...), four characters
\* wide
GutterColumns == 4

\* pyside, plankedit: line_number_area_width() on a document of n lines;
\* tkinter: the width the gutter was created with is set nowhere else
line_number_area_width(v, n, w) ==
    LET digits == digits_loop(IF n > 1 THEN n ELSE 1, 1)
    IN  IF v = "pyside" THEN (w * digits) + w
        ELSE IF v = "plankedit" THEN 3 + w * digits + 10
        ELSE GutterColumns * w + 4 + 4

\* The numbers of a document whose lines take one display row each.
\* The rows the number of line i takes in the gutter.  pyside draws it with
\* drawText on one row; tkinter inserts str(i) into the gutter's Text widget,
\* which breaks a string longer than its width onto further rows.
number_rows(v, i) ==
    IF v = "tkinter" THEN (digits_loop(i, 1) + GutterColumns - 1) \div GutterColumns
    ELSE 1

\* the rows the numbers of the lines lo .. hi take
RECURSIVE rows_of_numbers(_, _, _)
rows_of_numbers(v, lo, hi) ==
    IF lo > hi THEN 0
    ELSE IF lo = hi THEN number_rows(v, lo)
    ELSE LET mid == (lo + hi) \div 2
         IN  rows_of_numbers(v, lo, mid) + rows_of_numbers(v, mid + 1, hi)

\* the row, counted from the top of the document, at which the number of
\* line i is drawn.  pyside: top = bottom, bottom = top + height, block after
\* block, every block one row high; tkinter: the numbers of the lines before
\* i, joined by line breaks, come first in the gutter
number_row(v, i) ==
    IF v = "tkinter" THEN rows_of_numbers(v, 1, i - 1) ELSE i - 1

\* update_line_number_area_width: the gutter of a document of n lines
update_line_number_area_width(v, n) ==
    [w \in Advances |-> line_number_area_width(v, n, w)]

-----------------------------------------------------------------------------
(* The state machine *)

\* no Tab key is the last operation, or the one before a Shift+Tab
NoPretab == [text |-> <<>>, cursor |-> -1]

\* the state a document handler leaves, r, becomes the next state
CommitDoc(o, r) ==
    /\ text' = r.text
    /\ current_file' = r.cf
    /\ dirty' = r.dirty
    /\ edit_modified' = r.em
    /\ fs' = r.fs
    /\ op' = o
    /\ prompted' = r.prompted
    /\ ret' = r.ret
    /\ sfret' = r.sfret
    /\ wres' = r.wres
    /\ wpath' = r.wpath
    /\ rres' = r.rres
    /\ rmres' = r.rmres
    /\ raised' = r.raised
    /\ step' = StepAfter(o, r)
    /\ nprompts' = PromptsAfter(o, r)
    /\ UNCHANGED <<blocks, gutter>>

\* the document machine types at the end of the text: it keeps the insertion
\* cursor there
Commit(o, r) ==
    /\ CommitDoc(o, r)
    /\ cursor' = Len(r.text)
    /\ pretab' = NoPretab

\* the state a settings handler leaves, c, becomes the next state
CommitCfg(o, c) ==
    /\ config' = c.config
    /\ ed' = c.ed
    /\ cfgFile' = c.cfgFile
    /\ op' = o
    /\ wres' = c.wres
    /\ prompted' = FALSE
    /\ ret' = "none"
    /\ sfret' = "none"
    /\ wpath' = None
    /\ rres' = "none"
    /\ rmres' = "none"
    /\ raised' = FALSE
    /\ step' = "off"
    /\ nprompts' = 0
    /\ pretab' = NoPretab
    /\ UNCHANGED <<variant, window, text, cursor, blocks, gutter, current_file, dirty,
                   edit_modified, fs>>

Running == window = "open"

Fresh(files) ==
    [text |-> <<>>, cf |-> None, dirty |-> FALSE, em |-> FALSE, fs |-> files,
     prompted |-> FALSE, ms |-> TRUE, ret |-> "none", sfret |-> "none",
     wres |-> "none", wpath |-> None, rres |-> "none", rmres |-> "none",
     raised |-> FALSE]

\* PlanckEdit.__init__ on the files found on disk: load_config, apply_settings,
\* load_startup_stash; an exception out of load_config ends the program
Started(v, files, f, rd) ==
    LET lc == load_config(v, f)
    IN  IF lc.raised
        THEN [doc |-> [Fresh(files) EXCEPT !.raised = TRUE],
              config |-> default_config, ed |-> EditorDefaults, window |-> "closed"]
        ELSE [doc |-> load_startup_stash(Fresh(files), rd),
              config |-> lc.cfg, ed |-> apply_settings(EditorDefaults, lc.cfg),
              window |-> "open"]

InitOf(v, files, f, rd) ==
    LET st == Started(v, files, f, rd)
        r == st.doc
    IN  /\ variant = v
        /\ window = st.window
        /\ config = st.config
        /\ ed = st.ed
        /\ cfgFile = f
        /\ text = r.text
        /\ cursor = Len(r.text)
        /\ blocks = 1
        /\ gutter = update_line_number_area_width(v, 1)
        /\ current_file = r.cf
        /\ dirty = r.dirty
        /\ edit_modified = r.em
        /\ fs = r.fs
        /\ op = "start"
        /\ prompted = FALSE
        /\ ret = "none"
        /\ sfret = "none"
        /\ wres = "none"
        /\ wpath = None
        /\ rres = r.rres
        /\ rmres = "none"
        /\ raised = r.raised
        /\ step = "started"
        /\ nprompts = 0
        /\ pretab = NoPretab

\* the document machine starts on any files, with no config.json
Init ==
    \E v \in Variants, files \in [Paths -> Files], rd \in BOOLEAN :
        InitOf(v, files, NoConfigFile, rd)

\* a key that changes the text: a character typed
TypeChar ==
    /\ Running
    /\ \E c \in Chars :
        /\ Len(text) < MaxLen
        /\ Commit("key", [Cur EXCEPT !.text = Append(text, c),
                                     !.dirty = IF variant = "pyside" THEN TRUE ELSE @,
                                     !.em = IF variant = "tkinter" THEN TRUE ELSE @])
    /\ UNCHANGED <<variant, window, config, ed, cfgFile>>

\* a key that changes the text: BackSpace
Backspace ==
    /\ Running
    /\ Len(text) > 0
    /\ Commit("key", [Cur EXCEPT !.text = SubSeq(text, 1, Len(text) - 1),
                                 !.dirty = IF variant = "pyside" THEN TRUE ELSE @,
                                 !.em = IF variant = "tkinter" THEN TRUE ELSE @])
    /\ UNCHANGED <<variant, window, config, ed, cfgFile>>

\* on_text_modified that clears the widget's flag and forgets is_dirty
on_text_modified_forgets(s) == [s EXCEPT !.em = FALSE]

\* tkinter <KeyRelease>: on_content_changed -> on_text_modified
on_text_modified(s) ==
    IF s.em THEN [s EXCEPT !.dirty = TRUE, !.em = FALSE] ELSE s

KeyRelease ==
    /\ Running
    /\ variant = "tkinter"
    /\ Commit("release", on_text_modified(Cur))
    /\ UNCHANGED <<variant, window, config, ed, cfgFile>>

New ==
    /\ Running
    /\ \E r \in {new_file(variant, Cur, answer, io) :
                    answer \in Answers, io \in WriteOutcomes} :
        Commit("new", r)
    /\ UNCHANGED <<variant, window, config, ed, cfgFile>>

Open ==
    /\ Running
    /\ \E r \in {open_file(variant, Cur, answer, io, path, rd) :
                    answer \in Answers, io \in WriteOutcomes,
                    path \in Paths \cup {Cancel}, rd \in BOOLEAN} :
        Commit("open", r)
    /\ UNCHANGED <<variant, window, config, ed, cfgFile>>

Save ==
    /\ Running
    /\ \E r \in {save_file(variant, Cur, path, io, rm) :
                    path \in Paths \cup {Cancel}, io \in WriteOutcomes, rm \in BOOLEAN} :
        Commit("save", r)
    /\ UNCHANGED <<variant, window, config, ed, cfgFile>>

SaveAs ==
    /\ Running
    /\ \E r \in {save_file_as(variant, Cur, path, io, rm) :
                    path \in Paths \cup {Cancel}, io \in WriteOutcomes, rm \in BOOLEAN} :
        Commit("save_as", r)
    /\ UNCHANGED <<variant, window, config, ed, cfgFile>>

Stash ==
    /\ Running
    /\ \E r \in {stash_file(Cur, io) : io \in WriteOutcomes} :
        Commit("stash", r)
    /\ UNCHANGED <<variant, window, config, ed, cfgFile>>

OpenStash ==
    /\ Running
    /\ \E r \in {open_stash(variant, Cur, answer, io, rd) :
                    answer \in Answers, io \in WriteOutcomes, rd \in BOOLEAN} :
        Commit("open_stash", r)
    /\ UNCHANGED <<variant, window, config, ed, cfgFile>>

ClearStash ==
    /\ Running
    /\ \E r \in {clear_stash(variant, Cur, rm) : rm \in BOOLEAN} :
        Commit("clear_stash", r)
    /\ UNCHANGED <<variant, window, config, ed, cfgFile>>

Close ==
    /\ Running
    /\ \E r \in {close_app(variant, Cur, answer, io) :
                    answer \in Answers, io \in WriteOutcomes} :
        /\ Commit("close", r)
        /\ window' = IF r.ms THEN "closed" ELSE "open"
    /\ UNCHANGED <<variant, config, ed, cfgFile>>

\* the program is started again after its window was closed
Start ==
    /\ window = "closed"
    /\ \E st \in {Started(variant, fs, cfgFile, rd) : rd \in BOOLEAN} :
        /\ Commit("start", st.doc)
        /\ window' = st.window
        /\ config' = st.config
        /\ ed' = st.ed
    /\ UNCHANGED <<variant, cfgFile>>

ToggleWordWrap ==
    /\ Running
    /\ \E io \in WriteOutcomes :
        CommitCfg("toggle_word_wrap", toggle_word_wrap(CurCfg, io))

ToggleTabsVsSpaces ==
    /\ Running
    /\ \E io \in WriteOutcomes :
        CommitCfg("toggle_tabs_vs_spaces", toggle_tabs_vs_spaces(CurCfg, io))

ChangeTabSize ==
    /\ Running
    /\ \E num \in TabInputs \cup {0}, io \in WriteOutcomes :
        CommitCfg("change_tab_size", change_tab_size(CurCfg, num, io))

\* the text after a key of the widget changed it to k.text: pyside's document
\* is modified at once, tkinter's widget sets its own edit_modified flag
Edited(k) ==
    [Cur EXCEPT !.text = k.text,
                !.dirty = IF variant = "pyside" /\ k.text # text THEN TRUE ELSE @,
                !.em = IF variant = "tkinter" /\ k.text # text THEN TRUE ELSE @]

\* the user puts the insertion cursor somewhere else
MoveCursor ==
    /\ Running
    /\ Len(text) <= MaxLen
    /\ \E c \in 0 .. Len(text) :
        /\ c # cursor
        /\ cursor' = c
        /\ pretab' = NoPretab
        /\ CommitDoc("move", Cur)
    /\ UNCHANGED <<variant, window, config, ed, cfgFile>>

\* the longest text the indentation machine lets Tab make: a text of the
\* longest length, indented once by the default tab size
MaxIndented == MaxLen + default_config.tab_size[2]

Tab ==
    /\ Running
    /\ Len(text) <= MaxLen
    /\ LET k == handle_tab(variant, ed, text, cursor)
       IN  /\ Len(k.text) <= MaxIndented
           /\ CommitDoc("tab", Edited(k))
           /\ cursor' = k.cursor
           /\ pretab' = [text |-> text, cursor |-> cursor]
    /\ UNCHANGED <<variant, window, config, ed, cfgFile>>

Backtab ==
    /\ Running
    /\ LET k == handle_backtab(variant, ed, text, cursor)
       IN  /\ CommitDoc("backtab", Edited(k))
           /\ cursor' = k.cursor
           /\ pretab' = IF op = "tab" THEN pretab ELSE NoPretab
    /\ UNCHANGED <<variant, window, config, ed, cfgFile>>

Next ==
    \/ TypeChar
    \/ Backspace
    \/ KeyRelease
    \/ New
    \/ Open
    \/ Save
    \/ SaveAs
    \/ Stash
    \/ OpenStash
    \/ ClearStash
    \/ Close
    \/ Start

Spec == Init /\ [][Next]_vars

\* a Close request of a user who answers the prompt, when it is shown, with
\* Discard
CloseDiscard ==
    /\ Running
    /\ \E r \in {close_app(variant, Cur, "Discard", io) : io \in WriteOutcomes} :
        /\ Commit("close", r)
        /\ window' = IF r.ms THEN "closed" ELSE "open"
    /\ UNCHANGED <<variant, config, ed, cfgFile>>

\* the document machine with a user who keeps asking to close and answers
\* Discard: that request is not put off for ever
CloseSpec == Spec /\ WF_vars(CloseDiscard)

-----------------------------------------------------------------------------
(* The settings machine: the editor holds an untitled, unmodified document *)
(* and config.json is whatever was left beside the program.                *)

\* what config.json may hold for a key when the editor starts
TokensFor(k) ==
    IF k = "tab_size" THEN {JNum(2), JNum(MaxTabSize), JNum(MaxTabSize + 1)}
    ELSE {JLit("true"), JLit("false"), JNum(0)}

ConfigObjects ==
    {o \in UNION {[K -> UNION {TokensFor(k) : k \in Keys}] : K \in SUBSET Keys} :
        \A k \in DOMAIN o : o[k] \in TokensFor(k)}

ConfigFiles ==
    {ConfigFile(kind) : kind \in {"absent", "unreadable", "badbytes", "invalid",
                                    "number", "emptylist"}}
    \cup {ObjectFile(o) : o \in ConfigObjects}

CfgInit ==
    \E v \in Variants, f \in ConfigFiles :
        InitOf(v, [p \in Paths |-> NoFile], f, TRUE)

CfgNext ==
    \/ ToggleWordWrap
    \/ ToggleTabsVsSpaces
    \/ ChangeTabSize
    \/ Close
    \/ Start

CfgSpec == CfgInit /\ [][CfgNext]_vars

-----------------------------------------------------------------------------
(* The gutter machine: a document of any number of lines is edited, and    *)
(* every change of the line count has the gutter measured again.           *)

\* the line counts looked at: every count up to MaxLines, and the counts
\* around the next two changes of the number of digits
LineCounts == (1 .. MaxLines) \cup {999, 1000, 9999, 10000, 10001}

GutterInit ==
    \E v \in GutterVariants :
        InitOf(v, [p \in Paths |-> NoFile], NoConfigFile, TRUE)

\* blockCountChanged -> update_line_number_area_width
LinesChanged ==
    /\ Running
    /\ \E n \in LineCounts \ {blocks} :
        /\ blocks' = n
        /\ gutter' = update_line_number_area_width(variant, n)
    /\ op' = "lines"
    /\ UNCHANGED <<variant, window, text, cursor, current_file, dirty, edit_modified,
                   fs, config, ed, cfgFile, prompted, ret, sfret, wres, wpath, rres,
                   rmres, raised, step, nprompts, pretab>>

GutterNext == LinesChanged

GutterSpec == GutterInit /\ [][GutterNext]_vars

-----------------------------------------------------------------------------
(* The indentation machine: the editor starts on a stash that holds any    *)
(* short text, the user moves the cursor, changes the tab settings and     *)
(* presses Tab and Shift+Tab.  config.json stays writable.                 *)

EdInit ==
    \E v \in Variants, t \in EdTexts :
        InitOf(v, [p \in Paths |-> IF p = StashPath THEN File(t) ELSE NoFile],
               NoConfigFile, TRUE)

EdNext ==
    \/ MoveCursor
    \/ Tab
    \/ Backtab
    \/ ToggleTabsVsSpaces /\ wres' = "ok"
    \/ ChangeTabSize /\ wres' \in {"ok", "none"}

EdSpec == EdInit /\ [][EdNext]_vars

-----------------------------------------------------------------------------
(* Properties of the save / stash / open flow, checked under Spec *)

\* a write that was tried and did not go through
WriteFailed(w) == w \in {"open_fails", "write_fails"}

\* the step replaces the editor text, changes current_file or closes the window
Transition ==
    \/ text' # text
    \/ current_file' # current_file
    \/ window' = "closed"

C2_SuccessfulSaveNamedClean ==
    (op \in {"save", "save_as"} /\ sfret = "True") =>
        /\ ~dirty
        /\ current_file # None
        /\ wres = "ok"
        /\ current_file = wpath

\* C2 happens: Save on an untitled document went through Save As, wrote f.txt
\* and removed the stash file
C2_Witness ==
    /\ op = "save"
    /\ sfret = "True"
    /\ rmres = "ok"
    /\ current_file = "f.txt"
    /\ fs["f.txt"] = File(text)
    /\ ~dirty

\* C3: in the sequence fresh start, open file, edit, save, edit, close the
\* prompt is shown by the close and by no step before it: exactly once.
C3_OnePromptInScenario ==
    /\ step = "closing" => nprompts = 1
    /\ step \in Steps \ {"closing", "off"} => nprompts = 0

\* C3 happens: the whole sequence was run and its close was answered
C3_Witness ==
    /\ step = "closing"
    /\ nprompts = 1
    /\ prompted
    /\ op = "close"

-----------------------------------------------------------------------------
(* Properties of the settings, checked under CfgSpec *)

SettingsOps == {"toggle_word_wrap", "toggle_tabs_vs_spaces", "change_tab_size"}

\* a settings handler ran and called save_config
SettingsChanged == op \in SettingsOps /\ wres # "none"

\* the three settings of the mapping m are those of the mapping n
SameSettings(m, n) == \A k \in Keys : m[k] = n[k]

\* the settings are of the documented types and range
ValidSettings(m) ==
    /\ m.word_wrap \in {PyBool(TRUE), PyBool(FALSE)}
    /\ m.use_spaces \in {PyBool(TRUE), PyBool(FALSE)}
    /\ m.tab_size \in {PyInt(n) : n \in MinTabSize .. MaxTabSize}

\* every settings mapping of the documented types and range
SettingsMappings ==
    {[word_wrap |-> PyBool(w), tab_size |-> PyInt(n), use_spaces |-> PyBool(u)] :
        w \in BOOLEAN, n \in MinTabSize .. MaxTabSize, u \in BOOLEAN}

C8_LoadConfigNeverRaises ==
    op = "start" =>
        /\ ~raised
        /\ window = "open"
        /\ Keys \subseteq DOMAIN config
        /\ \A k \in Keys :
              IF cfgFile.kind = "object" /\ k \in DOMAIN cfgFile.obj
              THEN config[k] = json_load_value(cfgFile.obj[k])
              ELSE config[k] = default_config[k]

\* C9 as stated: after every settings change config.json holds exactly the
\* settings in memory and the editor has applied them, a failed write included.
C9_DiskAlwaysHoldsSettings ==
    SettingsChanged =>
        /\ cfgFile.kind = "object"
        /\ json_load(cfgFile) = config
        /\ ed.tab_size = config.tab_size
        /\ ed.use_spaces = config.use_spaces

\* C10 as stated: in every state the settings in memory, and the tab settings
\* the editor has applied, are booleans and a tab size in 1..16.
C10_SettingsAlwaysValid ==
    /\ ValidSettings(config)
    /\ ed.tab_size = config.tab_size
    /\ ed.use_spaces = config.use_spaces

-----------------------------------------------------------------------------
(* Properties of the indentation keys, checked under EdSpec *)

\* what the settings in memory say Tab inserts
Indent == IF Truthy(config.use_spaces) THEN Spaces(config.tab_size[2]) ELSE <<"\t">>

\* the number of consecutive spaces directly before position c of t
SpacesBefore(t, c) ==
    CHOOSE k \in 0 .. c :
        /\ \A i \in (c - k + 1) .. c : t[i] = " "
        /\ k = c \/ t[c - k] # " "

Min(a, b) == IF a < b THEN a ELSE b

C12_BacktabRemovesIndentBeforeCursor ==
    [][op' = "backtab" =>
         LET n == IF Truthy(config.use_spaces)
                  THEN Min(config.tab_size[2], SpacesBefore(text, cursor))
                  ELSE IF cursor > 0 /\ text[cursor] = "\t" THEN 1 ELSE 0
         IN  /\ text' = SubSeq(text, 1, cursor - n) \o SubSeq(text, cursor + 1, Len(text))
             /\ cursor' = cursor - n ]_vars

-----------------------------------------------------------------------------
(* Properties of the gutter, checked under GutterSpec *)

\* the number of decimal digits of max(1, n)
NumDigits(n) == Len(Digits(IF n > 1 THEN n ELSE 1))

\* C13 as stated: in every program that draws a gutter the width follows the
\* number of decimal digits of the line count: a change of the line count
\* that keeps the number of digits keeps the width, and one to more digits
\* makes the gutter strictly wider (to fewer digits, strictly narrower).
C13_GutterGrowsWithDigits ==
    [][op' = "lines" =>
         \A w \in Advances :
            /\ NumDigits(blocks') = NumDigits(blocks) => gutter'[w] = gutter[w]
            /\ NumDigits(blocks') > NumDigits(blocks) => gutter'[w] > gutter[w]
            /\ NumDigits(blocks') < NumDigits(blocks) => gutter'[w] < gutter[w] ]_vars

-----------------------------------------------------------------------------
(* Properties of failed operations, checked under Spec *)

\* C14 as stated: when the write of Save or Save As fails, current_file, the
\* dirty flag, the editor text and the stash file are afterwards as they were
\* before the operation, and the operation returned False.
C14_FailedSaveChangesNothing ==
    [][(op' \in {"save", "save_as"} /\ WriteFailed(wres')) =>
         /\ current_file' = current_file
         /\ dirty' = dirty
         /\ text' = text
         /\ fs'[StashPath] = fs[StashPath]
         /\ ret' = "False" ]_vars

\* C15: an Open that loads nothing (the read of the chosen file failed, the
\* dialog was cancelled, or the prompt was cancelled) leaves the editor text,
\* current_file and the dirty flag as the unsaved-changes check left them:
\* text and current_file as before the Open, the dirty flag as before or
\* cleared by the save the prompt made; some run of maybe_save on the state
\* before the Open gives exactly that state.
C15_FailedOpenChangesNothing ==
    [][(op' = "open" /\ rres' # "ok") =>
         /\ text' = text
         /\ current_file' = current_file
         /\ dirty' = dirty \/ (dirty /\ prompted' /\ sfret' = "True" /\ ~dirty')
         /\ \E answer \in Answers, io \in WriteOutcomes :
               LET m == maybe_save(variant, Cur, answer, io)
               IN  /\ m.text = text' /\ m.cf = current_file' /\ m.dirty = dirty'
                   /\ m.fs = fs' /\ m.prompted = prompted' ]_vars

\* C15 happens: the changes of a named document were discarded at the prompt,
\* the read of the chosen file failed, and the document is still there
C15_Witness ==
    /\ op = "open"
    /\ rres = "fail"
    /\ prompted
    /\ dirty
    /\ current_file = "f.txt"
    /\ text # <<>>

\* C16 as stated: no failure of reading, writing or deleting a file leaves a
\* handler, or the start of the program, as an uncaught exception.
C16_NoUncaughtException == ~raised

\* C17 as stated: when New, Open, Open Stash or Close is dispatched, every
\* change a key press made to the text has already set the dirty flag the
\* handler reads: no change is still waiting for its key release.
C17_DirtyBeforeHandlerReadsIt ==
    [][op' \in {"new", "open", "open_stash", "close"} => (edit_modified => dirty)]_vars

-----------------------------------------------------------------------------
(* The files of the repository side by side, checked under Spec *)

\* what the policy decides: Untitled/Named, clean/dirty, the text, the stash
\* file, the prompt shown, and whether the handler went on
PolicyView(r) ==
    [cf |-> r.cf, dirty |-> r.dirty, text |-> r.text, stash |-> r.fs[StashPath],
     prompted |-> r.prompted, ms |-> r.ms]

\* C18 as stated: from the state reached, Close, New and Open Stash with the
\* same dialog answer and the same I/O outcomes leave the same Untitled/Named,
\* clean/dirty, text and stash state and show the same prompt in every file
\* that has the operation (planckedit.py has no Open Stash).
C18_SamePolicyInAllFiles ==
    \A answer \in Answers, io \in WriteOutcomes, rd \in BOOLEAN :
        /\ \A f1, f2 \in Files4 :
              /\ PolicyView(close_in(f1, Cur, answer, io))
                    = PolicyView(close_in(f2, Cur, answer, io))
              /\ PolicyView(new_in(f1, Cur, answer, io))
                    = PolicyView(new_in(f2, Cur, answer, io))
        /\ \A f1, f2 \in Files4 \ {"planckedit.py"} :
              PolicyView(open_stash_in(f1, Cur, answer, io, rd))
                    = PolicyView(open_stash_in(f2, Cur, answer, io, rd))

-----------------------------------------------------------------------------
(* More properties of the gutter, checked under GutterSpec *)

\* C19 as stated, for the last line of a document whose lines take one display
\* row each: the number of line i is drawn at the row of line i, which is row
\* i - 1 from the top of the document, for every document.
C19_NumberAtItsLine == number_row(variant, blocks) = blocks - 1

-----------------------------------------------------------------------------
(* The frame of Stash, checked under Spec *)

\* C20: a Stash whose write succeeded leaves stash.txt holding exactly the
\* editor text, whatever it held before, and changes nothing else:
\* current_file, the dirty flag, the editor text and the other files are as
\* before, for an untitled and for a named document.
C20_StashChangesOnlyTheStash ==
    [][(op' = "stash" /\ wres' = "ok") =>
         /\ fs'[StashPath] = File(text)
         /\ \A p \in Paths \ {StashPath} : fs'[p] = fs[p]
         /\ text' = text
         /\ current_file' = current_file
         /\ dirty' = dirty ]_vars

\* C20 happens: a named, modified document was stashed and is still named and
\* modified
C20_Witness ==
    /\ op = "stash"
    /\ wres = "ok"
    /\ current_file = "f.txt"
    /\ dirty
    /\ text # <<>>
    /\ fs[StashPath] = File(text)
    /\ fs["f.txt"] # File(text)

-----------------------------------------------------------------------------
(* The stash as an untitled document, checked under Spec *)

\* C21: after an Open Stash, or a start, that read the stash file the document
\* is untitled and not modified and its text is the content of the stash file
\* (the same holds for the open_stash of plankedit-pyside.py run from the state
\* reached); current_file is not the stash path, so the next Save goes through
\* Save As: with the dialog cancelled it writes nothing, and with a path chosen
\* its write goes to that path.
C21_OpenStashIsUntitled ==
    /\ (op \in {"open_stash", "start"} /\ rres = "ok") =>
          /\ current_file = None
          /\ ~dirty
          /\ text = fs[StashPath].data
          /\ \A io \in WriteOutcomes, rm \in BOOLEAN :
                /\ save_file(variant, Cur, Cancel, io, rm).fs = fs
                /\ save_file(variant, Cur, Cancel, io, rm).wres = "none"
                /\ \A path \in Paths : save_file(variant, Cur, path, io, rm).wpath = path
    /\ \A answer \in Answers, io \in WriteOutcomes, rd \in BOOLEAN :
          LET r == plankedit_open_stash(Cur, answer, io, rd)
          IN  r.rres = "ok" =>
                 r.cf = None /\ ~r.dirty /\ r.text = r.fs[StashPath].data

\* C21 happens: Open Stash from a named modified document showed the prompt and
\* loaded a stash that holds text
C21_Witness ==
    /\ op = "open_stash"
    /\ rres = "ok"
    /\ prompted
    /\ text # <<>>
    /\ text = fs[StashPath].data
    /\ current_file = None

-----------------------------------------------------------------------------
(* The abandoned operation, checked under Spec *)

\* the prompt is answered Cancel, or answered Save and the write fails
Abandons(answer, io) == answer = "Cancel" \/ (answer = "Save" /\ WriteFailed(io))

\* what New, Open, Open Stash and Close (and the Open Stash of
\* plankedit-pyside.py) leave when run from the state reached
PendingResults(answer, io) ==
    {new_file(variant, Cur, answer, io), close_app(variant, Cur, answer, io)}
    \cup {open_file(variant, Cur, answer, io, path, rd) :
             path \in Paths \cup {Cancel}, rd \in BOOLEAN}
    \cup {open_stash(variant, Cur, answer, io, rd) : rd \in BOOLEAN}
    \cup {plankedit_open_stash(Cur, answer, io, rd) : rd \in BOOLEAN}

\* the handler showed the prompt and stopped there: text, current_file and
\* dirty flag as before, no file read, and the same whatever a file dialog
\* would have returned
AbandonedAt(r, answer, io) ==
    /\ r.prompted
    /\ ~r.ms
    /\ r.text = text
    /\ r.cf = current_file
    /\ r.dirty = dirty
    /\ r.rres = "none"
    /\ r.rmres = "none"
    /\ \A path \in Paths \cup {Cancel}, rd \in BOOLEAN :
          open_file(variant, Cur, answer, io, path, rd)
             = open_file(variant, Cur, answer, io, Cancel, rd)

\* C22 as stated: from a named modified document, New, Open, Open Stash and
\* Close whose prompt is answered Cancel, or answered Save with the write
\* failing, leave text, current_file, dirty flag and the stash file as they
\* were, open no file dialog and keep the window open.
C22_AbandonedChangesNothing ==
    /\ []((current_file # None /\ dirty) =>
            \A answer \in Answers, io \in WriteOutcomes :
               Abandons(answer, io) =>
                  \A r \in PendingResults(answer, io) :
                     /\ AbandonedAt(r, answer, io)
                     /\ r.fs[StashPath] = fs[StashPath])
    /\ [][(op' \in {"new", "open", "open_stash", "close"} /\ prompted'
              /\ WriteFailed(wres')) =>
            /\ text' = text /\ current_file' = current_file /\ dirty' = dirty
            /\ fs'[StashPath] = fs[StashPath]
            /\ window' = "open" ]_vars

\* C22, amended: the same, the stash file being as it was unless current_file
\* is the stash file's own path and the failed write had already truncated it.
C22_AbandonedChangesNothingButTheTarget ==
    /\ []((current_file # None /\ dirty) =>
            \A answer \in Answers, io \in WriteOutcomes :
               Abandons(answer, io) =>
                  \A r \in PendingResults(answer, io) :
                     /\ AbandonedAt(r, answer, io)
                     /\ (current_file # StashPath \/ io # "write_fails") =>
                           r.fs[StashPath] = fs[StashPath])
    /\ [][(op' \in {"new", "open", "open_stash", "close"} /\ prompted'
              /\ WriteFailed(wres')) =>
            /\ text' = text /\ current_file' = current_file /\ dirty' = dirty
            /\ (current_file # StashPath \/ wres' # "write_fails") =>
                  fs'[StashPath] = fs[StashPath]
            /\ window' = "open" ]_vars

\* C22 happens: New on a named modified document, the prompt answered Save,
\* the write failed, and the document is still there with a stash beside it
C22_Witness ==
    /\ op = "new"
    /\ prompted
    /\ WriteFailed(wres)
    /\ ret = "False"
    /\ dirty
    /\ current_file = "f.txt"
    /\ text # <<>>
    /\ fs[StashPath].exists
    /\ window = "open"

-----------------------------------------------------------------------------
(* When the prompt is shown, checked under Spec *)

-----------------------------------------------------------------------------
(* The named clean document and its file, checked under Spec *)

\* C24 as stated: in every state in which the document is named and not
\* modified, the file at current_file exists and holds exactly the editor
\* text, whatever path the dialogs returned, the stash file's own included.
C24_NamedCleanIsOnDisk ==
    (window = "open" /\ current_file # None /\ ~dirty) =>
        fs[current_file] = File(text)

-----------------------------------------------------------------------------
(* No text lost unasked, checked under Spec *)

\* C25 as stated: New, Open, Open Stash, Clear Stash and Close replace or clear
\* the text of a modified document, or close its window, only after the prompt
\* was shown (named document) or that text was written to the stash file
\* (untitled document; a write that fails set aside).
C25_NoTextLostUnasked ==
    [][(op' \in {"new", "open", "open_stash", "clear_stash", "close"} /\ dirty
           /\ (text' # text \/ window' = "closed")) =>
         IF current_file # None
         THEN prompted'
         ELSE /\ wpath' = StashPath
              /\ ~WriteFailed(wres') => fs'[StashPath] = File(text)
      ]_vars

-----------------------------------------------------------------------------
(* What a save removes, checked under Spec *)

\* C26 as stated: whenever Save or Save As removes the stash file, the text it
\* has just written to the chosen path is the content the stash file has at
\* that moment (when the chosen path is the stash file itself, that is the
\* text just written).
C26_SaveAsRemovesOnlyPromotedStash ==
    [][(op' \in {"save", "save_as"} /\ rmres' = "ok" /\ wpath' # StashPath) =>
         /\ fs[StashPath] = File(text)
         /\ fs'[wpath'] = fs[StashPath] ]_vars

-----------------------------------------------------------------------------
(* The stash write that fails, checked under Spec *)

\* C27 as stated: when the stash write made for New, Open or Close on an
\* untitled modified document fails, the text is still in the editor
\* afterwards and the window is still open.
C27_FailedStashKeepsText ==
    [][(op' \in {"new", "open", "close"} /\ current_file = None /\ dirty
           /\ wpath' = StashPath /\ WriteFailed(wres')) =>
         /\ text' = text
         /\ window' = "open" ]_vars

-----------------------------------------------------------------------------
(* Tab and Shift+Tab together, checked under EdSpec *)

\* C28: Tab followed at once by Shift+Tab (nothing selected) gives back the
\* text and the cursor position there were before the Tab: in every state left
\* by such a pair of keys, and, from every text and cursor position reached,
\* for every tab size in 1..16 and both values of use_spaces.  (The second
\* part is looked at where the tab size has just been set to 1: a change of
\* the tab size keeps text and cursor, so every text and cursor position
\* reached is met there.)
C28_TabThenBacktabIsIdentity ==
    /\ (op = "backtab" /\ pretab # NoPretab) =>
          text = pretab.text /\ cursor = pretab.cursor
    /\ (op = "change_tab_size" /\ ed.tab_size = PyInt(MinTabSize)) =>
          \A n \in MinTabSize .. MaxTabSize, u \in BOOLEAN :
             LET e == set_tab_settings(ed, PyInt(n), PyBool(u))
                 k == handle_tab(variant, e, text, cursor)
                 b == handle_backtab(variant, e, k.text, k.cursor)
             IN  b.text = text /\ b.cursor = cursor

\* C28 happens: with a tab size of 2 and a space already before the cursor, Tab
\* and then Shift+Tab were pressed between that space and a line break
C28_Witness ==
    /\ op = "backtab"
    /\ pretab # NoPretab
    /\ ed.tab_size = PyInt(2)
    /\ Truthy(ed.use_spaces)
    /\ text = <<" ", "\n">>
    /\ cursor = 1

-----------------------------------------------------------------------------
(* What Shift+Tab may delete, checked under EdSpec *)

\* C29 as stated: what Shift+Tab deletes is some number n >= 0 of characters
\* directly before the cursor, none of them a line break: the text from the
\* cursor on and the text up to the start of the cursor's line stay, at every
\* cursor position, the start of the document included, in both modes.
C29_BacktabDeletesOnlyBeforeCursorOnLine ==
    [][op' = "backtab" =>
         \E n \in 0 .. cursor :
            /\ text' = SubSeq(text, 1, cursor - n) \o SubSeq(text, cursor + 1, Len(text))
            /\ \A i \in (cursor - n + 1) .. cursor : text[i] # "\n" ]_vars

-----------------------------------------------------------------------------
(* Closing, checked under CloseSpec *)

\* C30: a Close request closes the window exactly when the document is not
\* modified, or is untitled, or the prompt is answered Discard, or it is
\* answered Save and the write succeeds; it is refused only with the prompt
\* shown and no successful save (Cancel, or a save that failed); and with a
\* user who keeps asking to close and answers Discard, from every state reached
\* with the window open the window is eventually closed.
C30_CloseEventuallyCloses ==
    /\ [](Running =>
            \A answer \in Answers, io \in WriteOutcomes :
               close_app(variant, Cur, answer, io).ms
                  <=> \/ ~dirty
                      \/ current_file = None
                      \/ answer = "Discard"
                      \/ (answer = "Save" /\ io = "ok"))
    /\ [][op' = "close" =>
            /\ (~dirty \/ current_file = None \/ sfret' = "True") => window' = "closed"
            /\ window' = "open" =>
                  /\ prompted'
                  /\ sfret' # "True"
                  /\ (WriteFailed(wres') \/ wres' = "none") ]_vars
    /\ (Running ~> window = "closed")

\* C30 happens: the close of a named modified document was answered Discard
\* and the window is closed, nothing written
C30_Witness ==
    /\ op = "close"
    /\ window = "closed"
    /\ prompted
    /\ dirty
    /\ wres = "none"
    /\ current_file = "f.txt"
    /\ fs["f.txt"] # File(text)

====
